---- MODULE Spec2Model ----
(***************************************************************************)
(* Buffer textures (src/texture/buffer_texture.rs): the negotiation of the *)
(* internal format and of the TexBuffer entry point in                     *)
(* BufferTexture::from_buffer, and the life of the texture name: reserved  *)
(* by GenTextures, bound on the active texture unit, attached to the       *)
(* buffer, and on drop cleared from every texture unit and deleted.        *)
(***************************************************************************)
EXTENDS Integers, FiniteSets, Sequences, TLC

\* ------------------------------------------------------------------ bounds

\* Texture units of the context: ctxt.state.texture_units has indices 0..NumUnits-1.
NumUnits == 2
\* Texture names the driver can hand out at a time: 1..MaxHandle.
MaxHandle == 2
\* Element counts of the buffers handed to from_buffer: 1..MaxLen.
MaxLen == 2
\* Byte offsets of the buffers handed to from_buffer: 0..MaxOffset.
MaxOffset == 1

\* GL_MAX_TEXTURE_BUFFER_SIZE, the device's limit that TooLarge is documented
\* against; from_buffer never reads it.
MAX_TEXTURE_BUFFER_SIZE == 1

Units == 0..(NumUnits - 1)
Handles == 1..MaxHandle

\* ------------------------------------------------------------------- types

\* enum TextureBufferContentType
TextureBufferContentType ==
    { "U8", "I8", "U16", "I16", "U32", "I32",
      "U8U8", "I8I8", "U16U16", "I16I16", "U32U32", "I32I32",
      "U32U32U32", "I32I32I32",
      "U8U8U8U8", "I8I8I8I8", "U16U16U16U16", "I16I16I16I16",
      "U32U32U32U32", "I32I32I32I32",
      "F16", "F32", "F16F16", "F32F32", "F32F32F32",
      "F16F16F16F16", "F32F32F32F32" }

\* enum BufferTextureType
BufferTextureType == { "Float", "Integral", "Unsigned" }

\* enum TextureCreationError
TextureCreationError == { "NotSupported", "FormatNotSupported", "TooLarge" }

\* The extension flags from_buffer reads from ctxt.extensions.
ExtensionNames ==
    { "gl_oes_texture_buffer", "gl_ext_texture_buffer",
      "gl_arb_texture_buffer_object", "gl_ext_texture_buffer_object",
      "gl_arb_texture_buffer_object_rgb32" }

Extensions == [ExtensionNames -> BOOLEAN]

NoExtensions == [e \in ExtensionNames |-> FALSE]

\* Version(api, major, minor)
Version(api, major, minor) == [api |-> api, major |-> major, minor |-> minor]

\* The versions a context may report: below, at and above each threshold of
\* from_buffer, and an OpenGL ES context (where GL_OES_texture_buffer lives).
Versions ==
    { Version("Gl", 2, 1), Version("Gl", 3, 0), Version("Gl", 4, 0),
      Version("Gles", 3, 1) }

\* v >= w on versions: versions of different APIs are not comparable, so
\* the test is false for them.
VersionGe(v, w) ==
    /\ v.api = w.api
    /\ \/ v.major > w.major
       \/ v.major = w.major /\ v.minor >= w.minor

\* A BufferView<[T]> as from_buffer sees it: get_buffer_id(), its element
\* count and get_offset_bytes().
BufferViews == [id : {1}, len : 1..MaxLen, offset : 0..MaxOffset]

\* No buffer in the caller's hands.
NoBuffer == [id |-> 0, len |-> 0, offset |-> 0]

VARIABLES
    version,          \* ctxt.version
    extensions,       \* ctxt.extensions
    debug_assertions, \* whether the build keeps debug_assert!
    T,                \* T::get_type() of the BufferTexture<T> instantiation
    active_texture,   \* ctxt.state.active_texture
    texture_units,    \* ctxt.state.texture_units[u].texture
    gl_textures,      \* texture names generated and not deleted
    textures,         \* the `texture` of every BufferTexture value alive
    buffer,           \* the BufferView the caller holds, or NoBuffer
    last              \* the last operation and what it returned

vars ==
    << version, extensions, debug_assertions, T, active_texture, texture_units,
       gl_textures, textures, buffer, last >>

caps == << version, extensions, debug_assertions, T >>

\* ------------------------------------------------------ format resolution

\* Mutant of ModernSupported: the RGB32 extension alone counts as support.
ModernSupportedWithRgb32(v, ext) ==
    \/ VersionGe(v, Version("Gl", 3, 0))
    \/ ext["gl_oes_texture_buffer"]
    \/ ext["gl_ext_texture_buffer"]
    \/ ext["gl_arb_texture_buffer_object_rgb32"]

\* ctxt.version >= &Version(Api::Gl, 3, 0) || gl_oes_texture_buffer ||
\* gl_ext_texture_buffer
ModernSupported(v, ext) ==
    \/ VersionGe(v, Version("Gl", 3, 0))
    \/ ext["gl_oes_texture_buffer"]
    \/ ext["gl_ext_texture_buffer"]

\* gl_arb_texture_buffer_object || gl_ext_texture_buffer_object
LegacySupported(ext) ==
    \/ ext["gl_arb_texture_buffer_object"]
    \/ ext["gl_ext_texture_buffer_object"]

\* Mutant of Rgb32Supported: the extension flag is forgotten.
Rgb32SupportedVersionOnly(v, ext) ==
    VersionGe(v, Version("Gl", 4, 0))

\* The guard of the three RGB32 arms.
Rgb32Supported(v, ext) ==
    \/ VersionGe(v, Version("Gl", 4, 0))
    \/ ext["gl_arb_texture_buffer_object_rgb32"]

\* The unguarded arms of the first match.
ModernTable ==
    { << "U8", "Float", "R8" >>,
      << "U8", "Unsigned", "R8UI" >>,
      << "I8", "Integral", "R8I" >>,
      << "U16", "Float", "R16" >>,
      << "U16", "Unsigned", "R16UI" >>,
      << "I16", "Integral", "R16I" >>,
      << "U32", "Unsigned", "R32UI" >>,
      << "I32", "Integral", "R32I" >>,
      << "U8U8", "Float", "RG8" >>,
      << "U8U8", "Unsigned", "RG8UI" >>,
      << "I8I8", "Integral", "RG8I" >>,
      << "U16U16", "Float", "RG16" >>,
      << "U16U16", "Unsigned", "RG16UI" >>,
      << "I16I16", "Integral", "RG16I" >>,
      << "U32U32", "Unsigned", "RG32UI" >>,
      << "I32I32", "Integral", "RG32I" >>,
      << "U8U8U8U8", "Float", "RGBA8" >>,
      << "U8U8U8U8", "Unsigned", "RGBA8UI" >>,
      << "I8I8I8I8", "Integral", "RGBA8I" >>,
      << "U16U16U16U16", "Float", "RGBA16" >>,
      << "U16U16U16U16", "Unsigned", "RGBA16UI" >>,
      << "I16I16I16I16", "Integral", "RGBA16I" >>,
      << "U32U32U32U32", "Unsigned", "RGBA32UI" >>,
      << "I32I32I32I32", "Integral", "RGBA32I" >>,
      << "F16", "Float", "R16F" >>,
      << "F32", "Float", "R32F" >>,
      << "F16F16", "Float", "RG16F" >>,
      << "F32F32", "Float", "RG32F" >>,
      << "F16F16F16F16", "Float", "RGBA16F" >>,
      << "F32F32F32F32", "Float", "RGBA32F" >> }

\* The three guarded arms of the first match.
Rgb32Table ==
    { << "U32U32U32", "Unsigned", "RGB32UI" >>,
      << "I32I32I32", "Integral", "RGB32I" >>,
      << "F32F32F32", "Float", "RGB32F" >> }

\* The arms of the second match.
LegacyTable ==
    { << "U8U8U8U8", "Float", "RGBA8" >>,
      << "U16U16U16U16", "Float", "RGBA16" >>,
      << "F16F16F16F16", "Float", "RGBA16F" >>,
      << "F32F32F32F32", "Float", "RGBA32F" >>,
      << "I8I8I8I8", "Integral", "RGBA8I" >>,
      << "I16I16I16I16", "Integral", "RGBA16I" >>,
      << "I32I32I32I32", "Integral", "RGBA32I" >>,
      << "U8U8U8U8", "Unsigned", "RGBA8UI" >>,
      << "U16U16U16U16", "Unsigned", "RGBA16UI" >>,
      << "U32U32U32U32", "Unsigned", "RGBA32UI" >> }

NoFormat == "none"
NoError == "none"

Resolved(format) == [err |-> NoError, format |-> format]
Failed(err) == [err |-> err, format |-> NoFormat]

\* Mutant of Lookup: on a miss, an arm of the same element type under
\* another interpretation is taken when there is one.
LookupSubstituting(table, t, ty) ==
    IF \E e \in table : e[1] = t /\ e[2] = ty
    THEN Resolved((CHOOSE e \in table : e[1] = t /\ e[2] = ty)[3])
    ELSE IF \E e \in table : e[1] = t
         THEN Resolved((CHOOSE e \in table : e[1] = t)[3])
         ELSE Failed("FormatNotSupported")

\* match (T::get_type(), ty) over the arms in `table`; the `_` arm returns
\* FormatNotSupported.
Lookup(table, t, ty) ==
    IF \E e \in table : e[1] = t /\ e[2] = ty
    THEN Resolved((CHOOSE e \in table : e[1] = t /\ e[2] = ty)[3])
    ELSE Failed("FormatNotSupported")

\* Mutant of ResolveFormat: the legacy branch is tested first.
ResolveFormatLegacyFirst(v, ext, t, ty) ==
    IF LegacySupported(ext)
    THEN Lookup(LegacyTable, t, ty)
    ELSE IF ModernSupported(v, ext)
         THEN Lookup(ModernTable \cup
                         (IF Rgb32Supported(v, ext) THEN Rgb32Table ELSE {}),
                     t, ty)
         ELSE Failed("NotSupported")

\* let internal_format = if .. { match .. } else if .. { match .. } else
\* { return Err(NotSupported) }
ResolveFormat(v, ext, t, ty) ==
    IF ModernSupported(v, ext)
    THEN Lookup(ModernTable \cup (IF Rgb32Supported(v, ext) THEN Rgb32Table ELSE {}),
                t, ty)
    ELSE IF LegacySupported(ext)
         THEN Lookup(LegacyTable, t, ty)
         ELSE Failed("NotSupported")

\* Mutant of EntryPoint: the chain has no branch for gl_oes_texture_buffer.
EntryPointWithoutOes(v, ext) ==
    IF VersionGe(v, Version("Gl", 3, 0)) THEN "TexBuffer"
    ELSE IF ext["gl_arb_texture_buffer_object"] THEN "TexBufferARB"
    ELSE IF ext["gl_ext_texture_buffer_object"] \/ ext["gl_ext_texture_buffer"]
         THEN "TexBufferEXT"
    ELSE "unreachable"

\* The if / else-if chain that picks the call attaching the buffer.
EntryPoint(v, ext) ==
    IF VersionGe(v, Version("Gl", 3, 0)) THEN "TexBuffer"
    ELSE IF ext["gl_arb_texture_buffer_object"] THEN "TexBufferARB"
    ELSE IF ext["gl_ext_texture_buffer_object"] \/ ext["gl_ext_texture_buffer"]
         THEN "TexBufferEXT"
    ELSE IF ext["gl_oes_texture_buffer"] THEN "TexBufferOES"
    ELSE "unreachable"

\* ------------------------------------------------------------ binding slots

\* ctxt.gl.BindTexture(gl::TEXTURE_BUFFER, id);
\* ctxt.state.texture_units[act].texture = id;
BindTexture(units, act, id) == [units EXCEPT ![act] = id]

\* Mutant of ResetBindings: the loop stops at the first unit it resets.
ResetBindingsFirstOnly(units, tex) ==
    IF \E u \in DOMAIN units : units[u] = tex
    THEN LET first == CHOOSE u \in DOMAIN units :
                          /\ units[u] = tex
                          /\ \A w \in DOMAIN units : units[w] = tex => u <= w
         IN  [units EXCEPT ![first] = 0]
    ELSE units

\* Mutant of ResetBindings: the bindings are left as they are.
ResetBindingsNone(units, tex) == units

\* for tex_unit in texture_units.iter_mut() { if tex_unit.texture ==
\* self.texture { tex_unit.texture = 0 } }
ResetBindings(units, tex) ==
    [u \in DOMAIN units |-> IF units[u] = tex THEN 0 ELSE units[u]]

\* -------------------------------------------------------------- operations

Idle == [op |-> "none", ty |-> "none", result |-> "none", format |-> NoFormat,
         entry |-> "none", id |-> 0, held |-> {}]

\* A panic unwinds the thread that owns the context: nothing runs on the
\* context after it.
Panicked == last.result = "Panic"

\* Mutant of ReturnErr: the error is returned without the buffer, which is
\* dropped (as new_impl's map_err does one level up).
ReturnErrDroppingBuffer(ty, err) ==
    /\ last' = [Idle EXCEPT !.op = "from_buffer", !.ty = ty, !.result = err]
    /\ buffer' = NoBuffer
    /\ UNCHANGED << caps, active_texture, texture_units, gl_textures, textures >>

\* return Err((TextureCreationError::.., buffer)): the buffer goes back to
\* the caller, nothing else has happened.
ReturnErr(ty, err) ==
    /\ last' = [Idle EXCEPT !.op = "from_buffer", !.ty = ty, !.result = err]
    /\ UNCHANGED << caps, active_texture, texture_units, gl_textures, textures,
                    buffer >>

\* from_buffer past the format resolution, with `id` the name GenTextures
\* gives: bind it on the active unit, assert the offset, attach the buffer
\* through the entry point, build the BufferTexture.  The two panics
\* (debug_assert_eq!, unreachable!) leave the name generated and bound, and
\* drop the buffer.
Construct(ty, format, id) ==
    LET entry == EntryPoint(version, extensions)
        panic == \/ debug_assertions /\ buffer.offset # 0
                 \/ entry = "unreachable"
    IN  /\ gl_textures' = gl_textures \cup {id}
        /\ texture_units' = BindTexture(texture_units, active_texture, id)
        /\ textures' = IF panic THEN textures ELSE textures \cup {id}
        /\ buffer' = NoBuffer
        /\ last' = IF panic
                   THEN [Idle EXCEPT !.op = "from_buffer", !.ty = ty,
                                     !.result = "Panic", !.id = id,
                                     !.entry =
                                         IF debug_assertions /\ buffer.offset # 0
                                         THEN "none" ELSE "unreachable"]
                   ELSE [Idle EXCEPT !.op = "from_buffer", !.ty = ty,
                                     !.result = "Ok", !.format = format,
                                     !.entry = entry, !.id = id]
        /\ UNCHANGED << caps, active_texture >>

\* BufferTexture::from_buffer(context, buffer, ty)
FromBuffer(ty) ==
    /\ ~Panicked
    /\ buffer # NoBuffer
    /\ LET r == ResolveFormat(version, extensions, T, ty)
       IN  IF r.err # NoError
           THEN ReturnErr(ty, r.err)
           ELSE \E id \in Handles \ gl_textures : Construct(ty, r.format, id)

\* impl Drop for BufferTexture: reset the bindings, then DeleteTextures.
Drop(tex) ==
    /\ ~Panicked
    /\ tex \in textures
    /\ texture_units' = ResetBindings(texture_units, tex)
    /\ gl_textures' = gl_textures \ {tex}
    /\ textures' = textures \ {tex}
    /\ last' = [Idle EXCEPT !.op = "drop", !.id = tex,
                            !.held = {u \in Units : texture_units[u] = tex}]
    /\ UNCHANGED << caps, active_texture, buffer >>

\* The buffer collaborator hands the caller a BufferView (BufferView::new,
\* BufferView::empty_array, or a view the caller built).
NewBuffer(b) ==
    /\ ~Panicked
    /\ buffer = NoBuffer
    /\ buffer' = b
    /\ last' = [Idle EXCEPT !.op = "new_buffer"]
    /\ UNCHANGED << caps, active_texture, texture_units, gl_textures, textures >>

\* The rest of the library binds a live buffer texture on a texture unit
\* for sampling, recording it in ctxt.state: bind(unit, handle).
Bind(unit, tex) ==
    /\ ~Panicked
    /\ tex \in textures
    /\ active_texture' = unit
    /\ texture_units' = BindTexture(texture_units, unit, tex)
    /\ last' = [Idle EXCEPT !.op = "bind", !.id = tex]
    /\ UNCHANGED << caps, gl_textures, textures, buffer >>

\* ---------------------------------------------------------- specifications

FreshState ==
    /\ active_texture = 0
    /\ texture_units = [u \in Units |-> 0]
    /\ gl_textures = {}
    /\ textures = {}
    /\ last = Idle

\* The contexts of the life-cycle specification: core support, an OpenGL ES
\* context with the OES extension, the legacy ARB extension alone, and no
\* support at all.
LifecycleContexts ==
    { << Version("Gl", 3, 0), NoExtensions >>,
      << Version("Gles", 3, 1),
         [NoExtensions EXCEPT !["gl_oes_texture_buffer"] = TRUE] >>,
      << Version("Gl", 2, 1),
         [NoExtensions EXCEPT !["gl_arb_texture_buffer_object"] = TRUE] >>,
      << Version("Gl", 2, 1), NoExtensions >> }

\* The element types of the life-cycle specification: u8 (in the modern
\* table only) and (u8, u8, u8, u8) (in both tables); each has an
\* interpretation that resolves and one that does not.
LifecycleTypes == { "U8", "U8U8U8U8" }

\* One context, one element type, any build; buffers come and go.
Init ==
    /\ \E c \in LifecycleContexts : version = c[1] /\ extensions = c[2]
    /\ debug_assertions \in BOOLEAN
    /\ T \in LifecycleTypes
    /\ buffer = NoBuffer
    /\ FreshState

Next ==
    \/ \E b \in BufferViews : NewBuffer(b)
    \/ \E ty \in BufferTextureType : FromBuffer(ty)
    \/ \E tex \in Handles : Drop(tex)
    \/ \E unit \in Units, tex \in Handles : Bind(unit, tex)

Spec == Init /\ [][Next]_vars

\* Every version, every combination of extension flags and every element
\* type, with one whole buffer (offset 0) in the caller's hands.
InitFormat ==
    /\ version \in Versions
    /\ extensions \in Extensions
    /\ debug_assertions \in BOOLEAN
    /\ T \in TextureBufferContentType
    /\ buffer = [id |-> 1, len |-> 1, offset |-> 0]
    /\ FreshState

NextFormat ==
    \/ \E ty \in BufferTextureType : FromBuffer(ty)
    \/ \E tex \in Handles : Drop(tex)

SpecFormat == InitFormat /\ [][NextFormat]_vars

\* ------------------------------------------------------------------ claims

\* The capability tier of the context, from its version and flags: modern
\* (version at or above OpenGL 3.0, or one of the two texture_buffer
\* extensions), else legacy (one of the two texture_buffer_object
\* extensions), else unsupported.
CapabilityTier ==
    IF \/ VersionGe(version, Version("Gl", 3, 0))
       \/ extensions["gl_oes_texture_buffer"]
       \/ extensions["gl_ext_texture_buffer"]
    THEN "modern"
    ELSE IF \/ extensions["gl_arb_texture_buffer_object"]
            \/ extensions["gl_ext_texture_buffer_object"]
         THEN "legacy"
         ELSE "unsupported"

\* The secondary condition of the three RGB32 formats.
SecondaryCondition ==
    \/ VersionGe(version, Version("Gl", 4, 0))
    \/ extensions["gl_arb_texture_buffer_object_rgb32"]

Constructed == last.op = "from_buffer" /\ last.result = "Ok"
Called == last.op = "from_buffer"

\* An element type's name is its channel type (U, I or F and a width)
\* repeated once per channel.
Repeat(s, n) ==
    IF n = 1 THEN s
    ELSE IF n = 2 THEN s \o s
    ELSE IF n = 3 THEN s \o s \o s
    ELSE s \o s \o s \o s

Shapes == [kind : {"U", "I", "F"}, bits : {"8", "16", "32"}, channels : 1..4]

Shape(t) == CHOOSE s \in Shapes : Repeat(s.kind \o s.bits, s.channels) = t

\* The name of the internal format with the channels and the width of
\* element type t that samples as ty: unsigned integers are normalized
\* (no suffix) under Float and UI under Unsigned, signed integers are I
\* under Integral, floats are F under Float; no other combination has one.
ExpectedFormat(t, ty) ==
    LET s == Shape(t)
        prefix == IF s.channels = 1 THEN "R"
                  ELSE IF s.channels = 2 THEN "RG"
                  ELSE IF s.channels = 3 THEN "RGB"
                  ELSE "RGBA"
        suffix == IF s.kind = "U" /\ ty = "Float" THEN ""
                  ELSE IF s.kind = "U" /\ ty = "Unsigned" THEN "UI"
                  ELSE IF s.kind = "I" /\ ty = "Integral" THEN "I"
                  ELSE IF s.kind = "F" /\ ty = "Float" THEN "F"
                  ELSE "?"
    IN  IF suffix = "?" THEN NoFormat ELSE prefix \o s.bits \o suffix

\* The pairs of the modern table, by what they are: one, two or four
\* channels, an interpretation that fits the channel type, and no
\* normalized 32-bit format.
DocumentedModernPair(t, ty) ==
    LET s == Shape(t)
    IN  /\ s.channels # 3
        /\ ExpectedFormat(t, ty) # NoFormat
        /\ ~(s.kind = "U" /\ ty = "Float" /\ s.bits = "32")

Pairs(table) == { << e[1], e[2] >> : e \in table }

\* The pairs of the table of the context's tier.
ActiveTablePairs ==
    IF CapabilityTier = "modern"
    THEN Pairs(ModernTable) \cup (IF SecondaryCondition THEN Pairs(Rgb32Table) ELSE {})
    ELSE IF CapabilityTier = "legacy" THEN Pairs(LegacyTable) ELSE {}

\* C1: whenever from_buffer succeeds, the entry point that attached the
\* buffer belongs to the condition that selected the format table: in the
\* modern tier TexBuffer with the version, TexBufferOES with
\* gl_oes_texture_buffer or TexBufferEXT with gl_ext_texture_buffer, never
\* an entry point of a texture_buffer_object extension; in the legacy tier
\* TexBufferARB with gl_arb_texture_buffer_object or TexBufferEXT with
\* gl_ext_texture_buffer_object.
C1_EntryPointMatchesTier ==
    Constructed =>
        /\ CapabilityTier = "modern" =>
              \/ last.entry = "TexBuffer" /\ VersionGe(version, Version("Gl", 3, 0))
              \/ last.entry = "TexBufferOES" /\ extensions["gl_oes_texture_buffer"]
              \/ last.entry = "TexBufferEXT" /\ extensions["gl_ext_texture_buffer"]
        /\ CapabilityTier = "legacy" =>
              \/ /\ last.entry = "TexBufferARB"
                 /\ extensions["gl_arb_texture_buffer_object"]
              \/ /\ last.entry = "TexBufferEXT"
                 /\ extensions["gl_ext_texture_buffer_object"]

\* C2: a call of from_buffer with a buffer of more elements than
\* GL_MAX_TEXTURE_BUFFER_SIZE returns an error, which is TooLarge unless the
\* format resolution has already failed, and it generates no name and
\* changes no binding slot.
C2_TooLargeRejected ==
    [][(last'.op = "from_buffer" /\ buffer.len > MAX_TEXTURE_BUFFER_SIZE) =>
          /\ last'.result \in TextureCreationError
          /\ \/ last'.result = "TooLarge"
             \/ ResolveFormat(version, extensions, T, last'.ty).err # NoError
          /\ gl_textures' = gl_textures
          /\ texture_units' = texture_units]_vars

\* C3: right after a successful construction the slot of the active
\* texture unit holds the new name; right after a drop every unit that held
\* the dropped name holds 0, and no unit holds that name.
C3_BindThenReset ==
    /\ Constructed => texture_units[active_texture] = last.id
    /\ last.op = "drop" =>
          /\ \A u \in last.held : texture_units[u] = 0
          /\ \A u \in Units : texture_units[u] # last.id

\* C3 witness: a texture was dropped while two or more units held its name.
C3_Witness ==
    /\ last.op = "drop"
    /\ Cardinality(last.held) >= 2

\* C4: in a context of the unsupported tier every call of from_buffer
\* returns NotSupported, whatever the element type and interpretation.
C4_NotSupportedFirst ==
    (Called /\ CapabilityTier = "unsupported") => last.result = "NotSupported"

\* C4 witness: NotSupported for a pair that is in no table (u8 as
\* Integral), in a context whose only flag is the RGB32 one.
C4_Witness ==
    /\ Called
    /\ CapabilityTier = "unsupported"
    /\ extensions["gl_arb_texture_buffer_object_rgb32"]
    /\ T = "U8" /\ last.ty = "Integral"
    /\ last.result = "NotSupported"

\* C5: in the modern and in the legacy tier a pair absent from the tier's
\* table fails with FormatNotSupported, and a format that is chosen has the
\* channels, the width and the interpretation that were asked for; so the
\* legacy tier rejects every layout of one or two channels, and a signed
\* layout asked as Float or Unsigned is rejected.
C5_NoSubstitution ==
    (Called /\ CapabilityTier # "unsupported") =>
        /\ << T, last.ty >> \notin ActiveTablePairs =>
              last.result = "FormatNotSupported"
        /\ last.result = "Ok" => last.format = ExpectedFormat(T, last.ty)
        /\ (CapabilityTier = "legacy" /\ Shape(T).channels \in {1, 2}) =>
              last.result = "FormatNotSupported"
        /\ (Shape(T).kind = "I" /\ last.ty \in {"Float", "Unsigned"}) =>
              last.result = "FormatNotSupported"

\* C5 witness: a two-channel layout is rejected under the legacy tier.
C5_Witness ==
    /\ Called
    /\ CapabilityTier = "legacy"
    /\ T = "U8U8" /\ last.ty = "Float"
    /\ last.result = "FormatNotSupported"

\* C6: under the modern tier every pair of the modern table resolves to
\* its format (u8 as Float to R8), whatever else the context reports and
\* whichever name the texture got: the format is a function of the pair.
C6_ModernTable ==
    (Called /\ CapabilityTier = "modern" /\ DocumentedModernPair(T, last.ty)) =>
        /\ last.result = "Ok"
        /\ last.format = ExpectedFormat(T, last.ty)
        /\ (T = "U8" /\ last.ty = "Float") => last.format = "R8"

\* C6 witness: u8 as Float resolved to R8 in a context that is modern by an
\* extension and reports a legacy extension too.
C6_Witness ==
    /\ Constructed
    /\ ~VersionGe(version, Version("Gl", 3, 0))
    /\ extensions["gl_arb_texture_buffer_object"]
    /\ T = "U8" /\ last.ty = "Float"
    /\ last.format = "R8"

\* C7: under the modern tier the three 3-channel 32-bit pairs resolve to
\* RGB32UI, RGB32I and RGB32F when the secondary condition holds, and fail
\* with FormatNotSupported when it does not.
C7_Rgb32Gated ==
    (Called /\ CapabilityTier = "modern") =>
        /\ (T = "U32U32U32" /\ last.ty = "Unsigned") =>
              IF SecondaryCondition
              THEN last.result = "Ok" /\ last.format = "RGB32UI"
              ELSE last.result = "FormatNotSupported"
        /\ (T = "I32I32I32" /\ last.ty = "Integral") =>
              IF SecondaryCondition
              THEN last.result = "Ok" /\ last.format = "RGB32I"
              ELSE last.result = "FormatNotSupported"
        /\ (T = "F32F32F32" /\ last.ty = "Float") =>
              IF SecondaryCondition
              THEN last.result = "Ok" /\ last.format = "RGB32F"
              ELSE last.result = "FormatNotSupported"

\* C7 witness: RGB32UI by the extension flag alone, below OpenGL 4.0.
C7_Witness ==
    /\ Constructed
    /\ CapabilityTier = "modern"
    /\ ~VersionGe(version, Version("Gl", 4, 0))
    /\ extensions["gl_arb_texture_buffer_object_rgb32"]
    /\ T = "U32U32U32" /\ last.ty = "Unsigned"
    /\ last.format = "RGB32UI"

\* C8: a call of from_buffer that returns an error gives back the buffer
\* it was given and changes nothing else: no name is generated, no
\* BufferTexture exists that did not, and every binding slot is as it was.
C8_ErrorHasNoEffect ==
    [][(last'.op = "from_buffer" /\ last'.result \in TextureCreationError) =>
          /\ buffer' = buffer
          /\ buffer' # NoBuffer
          /\ gl_textures' = gl_textures
          /\ textures' = textures
          /\ texture_units' = texture_units
          /\ active_texture' = active_texture]_vars

\* C8 witness: from_buffer has returned an error while a binding slot held
\* a texture, and the caller holds the buffer.
C8_Witness ==
    /\ Called
    /\ last.result \in TextureCreationError
    /\ buffer # NoBuffer
    /\ \E u \in Units : texture_units[u] # 0

\* C9: a call of from_buffer with a buffer whose byte offset is not 0
\* never completes with a live BufferTexture.
C9_OffsetNeverBound ==
    [][(last'.op = "from_buffer" /\ buffer.offset # 0) => last'.result # "Ok"]_vars

\* C10: every binding slot that is not 0 holds a name that was generated
\* and has not been deleted.
C10_NoDanglingSlot ==
    \A u \in Units : texture_units[u] # 0 => texture_units[u] \in gl_textures

\* C10 witness: a texture has been dropped and another one is still bound.
C10_Witness ==
    /\ last.op = "drop"
    /\ \E u \in Units : texture_units[u] # 0

\* C11: the unreachable!() branch of the entry-point chain is never taken:
\* whenever the format resolution has not returned NotSupported, the call
\* ends with FormatNotSupported or attaches the buffer through one of the
\* four entry points, and no name is generated that no BufferTexture owns.
C11_UnreachableNotReached ==
    /\ last.entry # "unreachable"
    /\ gl_textures = textures
    /\ (Called /\ last.result # "NotSupported") =>
          \/ last.result = "FormatNotSupported"
          \/ /\ last.result = "Ok"
             /\ last.entry \in
                    {"TexBuffer", "TexBufferARB", "TexBufferEXT", "TexBufferOES"}

\* C11 witness: a construction that went down to the last branch of the
\* chain (only gl_oes_texture_buffer supports the context) and attached the
\* buffer with TexBufferOES; its name is owned by the BufferTexture.
C11_Witness ==
    /\ Constructed
    /\ last.entry = "TexBufferOES"
    /\ ~VersionGe(version, Version("Gl", 3, 0))
    /\ \A e \in ExtensionNames \ {"gl_oes_texture_buffer"} : ~extensions[e]
    /\ textures = {last.id}
    /\ gl_textures = {last.id}

====
